---------------------------- MODULE Spec2Model ----------------------------
(* A model of the visual security engine (src/src/engines/visual_engine.py): *)
(* text normalization, OCR result parsing, threat-phrase matching with risk  *)
(* scoring, and the cross-modal consistency check.                           *)
(*                                                                           *)
(* Strings are sequences of one-character strings, so that lowercasing, the  *)
(* regular-expression substitution, split, join and substring search are     *)
(* computed character by character as the code computes them.               *)
(* Floating-point values are exact fixed-point numbers: OCR confidences and  *)
(* risk scores in thousandths, similarities in units of 10^-5 and the        *)
(* returned consistency score in units of 10^-4.                             *)
EXTENDS Integers, Sequences, FiniteSets

VARIABLES pc, op, image, transcript, ocr_result, raw_text, scored,
          normalized, renormalized, matched, result, exc, capFailure, similarity,
          ocrCalls, encodeCalls, imageLoads

vars == <<pc, op, image, transcript, ocr_result, raw_text, scored,
          normalized, renormalized, matched, result, exc, capFailure, similarity,
          ocrCalls, encodeCalls, imageLoads>>

-----------------------------------------------------------------------------
(* Bounds of the model.                                                      *)

\* Longest raw text given to normalize_text on its own.
MaxRawLen == 6
\* Most line records the OCR capability returns to detect_injection.
MaxLines == 2
\* Most line records, and most blocks, of an OCR result given to
\* extract_ocr_text on its own.
MaxOcrLines == 2
MaxBlocks == 2
\* Half-width of the window of similarities explored around the threshold.
SimWindow == 6

-----------------------------------------------------------------------------
(* Python values, as far as the OCR result needs them: a tag and a payload.  *)

PyNone == [t |-> "none", v |-> <<>>]
PyStr(s) == [t |-> "str", v |-> s]
PyNum(n) == [t |-> "num", v |-> n]
PyList(xs) == [t |-> "list", v |-> xs]
\* Any other object (a dict, an array wrapper): truthy, of no known type.
PyObj == [t |-> "obj", v |-> <<>>]

\* Python truthiness: None, "", [] and 0 are falsy.
Truthy(x) ==
    CASE x.t = "none" -> FALSE
      [] x.t = "str"  -> x.v # <<>>
      [] x.t = "list" -> x.v # <<>>
      [] x.t = "num"  -> x.v # 0
      [] OTHER        -> TRUE

\* str(x) for the values that occur as the first element of a line's meta.
PyStrOf(x) ==
    CASE x.t = "str"  -> x.v
      [] x.t = "none" -> <<"N","o","n","e">>

-----------------------------------------------------------------------------
(* Characters and strings.                                                   *)

LowerAlpha == <<"a","b","c","d","e","f","g","h","i","j","k","l","m",
                "n","o","p","q","r","s","t","u","v","w","x","y","z">>
UpperAlpha == <<"A","B","C","D","E","F","G","H","I","J","K","L","M",
                "N","O","P","Q","R","S","T","U","V","W","X","Y","Z">>
DigitChars == {"0","1","2","3","4","5","6","7","8","9"}

\* The character class [a-z0-9] of the regular expression.
AlnumChars == {LowerAlpha[i] : i \in 1..26} \cup DigitChars

\* What str.split() splits on.
Whitespace == {" ", "\t", "\n"}

\* str.lower(), one character at a time.
LowerChar(c) ==
    IF \E i \in 1..26 : UpperAlpha[i] = c
      THEN LowerAlpha[CHOOSE i \in 1..26 : UpperAlpha[i] = c]
      ELSE c

Lowered(text) == [i \in 1..Len(text) |-> LowerChar(text[i])]

RECURSIVE DropNonAlnum(_)
DropNonAlnum(s) ==
    IF s = <<>> \/ Head(s) \in AlnumChars THEN s ELSE DropNonAlnum(Tail(s))

\* re.sub(r"[^a-z0-9]+", " ", s): every maximal run of characters outside
\* [a-z0-9] becomes one space.
RECURSIVE ReSubNonAlnum(_)
ReSubNonAlnum(s) ==
    IF s = <<>> THEN <<>>
    ELSE IF Head(s) \in AlnumChars
      THEN <<Head(s)>> \o ReSubNonAlnum(Tail(s))
      ELSE <<" ">> \o ReSubNonAlnum(DropNonAlnum(s))

\* str.split(): the maximal runs of non-whitespace characters.
RECURSIVE SplitLoop(_, _, _)
SplitLoop(s, tokens, cur) ==
    IF s = <<>>
      THEN IF cur = <<>> THEN tokens ELSE Append(tokens, cur)
    ELSE IF Head(s) \in Whitespace
      THEN SplitLoop(Tail(s), IF cur = <<>> THEN tokens ELSE Append(tokens, cur), <<>>)
      ELSE SplitLoop(Tail(s), tokens, Append(cur, Head(s)))

Split(s) == SplitLoop(s, <<>>, <<>>)

\* sep.join(items)
RECURSIVE Join(_, _)
Join(sep, items) ==
    IF items = <<>> THEN <<>>
    ELSE IF Len(items) = 1 THEN items[1]
    ELSE items[1] \o sep \o Join(sep, Tail(items))

\* "".join(items)
RECURSIVE Concat(_)
Concat(items) == IF items = <<>> THEN <<>> ELSE Head(items) \o Concat(Tail(items))

-----------------------------------------------------------------------------
(* _normalize_text                                                           *)

\* The loop of merge_single_letter_runs with the reset of the run forgotten
\* after a flush.
RECURSIVE MergeLoopNoReset(_, _, _)
MergeLoopNoReset(items, merged, run) ==
    IF items = <<>>
      THEN IF run # <<>> THEN Append(merged, Concat(run)) ELSE merged
    ELSE IF Len(Head(items)) = 1
      THEN MergeLoopNoReset(Tail(items), merged, Append(run, Head(items)))
    ELSE IF run # <<>>
      THEN MergeLoopNoReset(Tail(items),
                            Append(Append(merged, Concat(run)), Head(items)), run)
      ELSE MergeLoopNoReset(Tail(items), Append(merged, Head(items)), run)

\* The loop of merge_single_letter_runs with the flush after the loop
\* forgotten: a run that ends the input is lost.
RECURSIVE MergeLoopNoFinalFlush(_, _, _)
MergeLoopNoFinalFlush(items, merged, run) ==
    IF items = <<>>
      THEN merged
    ELSE IF Len(Head(items)) = 1
      THEN MergeLoopNoFinalFlush(Tail(items), merged, Append(run, Head(items)))
    ELSE IF run # <<>>
      THEN MergeLoopNoFinalFlush(Tail(items),
                            Append(Append(merged, Concat(run)), Head(items)), <<>>)
      ELSE MergeLoopNoFinalFlush(Tail(items), Append(merged, Head(items)), <<>>)

\* The loop of merge_single_letter_runs: items left, merged so far, open run.
RECURSIVE MergeLoop(_, _, _)
MergeLoop(items, merged, run) ==
    IF items = <<>>
      THEN IF run # <<>> THEN Append(merged, Concat(run)) ELSE merged
    ELSE IF Len(Head(items)) = 1
      THEN MergeLoop(Tail(items), merged, Append(run, Head(items)))
    ELSE IF run # <<>>
      THEN MergeLoop(Tail(items),
                     Append(Append(merged, Concat(run)), Head(items)), <<>>)
      ELSE MergeLoop(Tail(items), Append(merged, Head(items)), <<>>)

MergeNoReset(items) == MergeLoopNoReset(items, <<>>, <<>>)

MergeNoFinalFlush(items) == MergeLoopNoFinalFlush(items, <<>>, <<>>)

merge_single_letter_runs(items) == MergeLoop(items, <<>>, <<>>)

normalize_text(text) ==
    LET lowered == Lowered(text)
        cleaned == ReSubNonAlnum(lowered)
        tokens  == Split(cleaned)
        merged_tokens == merge_single_letter_runs(tokens)
    IN  Join(<<" ">>, merged_tokens)

-----------------------------------------------------------------------------
(* _extract_ocr_text                                                         *)

NoParse == [text |-> PyNone, score |-> PyNone]

\* One line record: the text and score the code reads out of it, None when
\* the record has none of the shapes the code looks for.
ParseLine(line) ==
    IF line.t = "list" /\ Len(line.v) >= 2
      THEN LET meta == line.v[2]
           IN  IF meta.t = "list"
                 THEN [text  |-> IF meta.v # <<>>
                                   THEN PyStr(PyStrOf(meta.v[1]))
                                   ELSE PyNone,
                       score |-> IF Len(meta.v) > 1 /\ meta.v[2].t = "num"
                                   THEN meta.v[2]
                                   ELSE PyNone]
               ELSE IF meta.t = "str"
                 THEN [text |-> meta, score |-> PyNone]
                 ELSE NoParse
    ELSE IF line.t = "str"
      THEN [text |-> line, score |-> PyNone]
      ELSE NoParse

\* The inner loop over the lines of one block.
RECURSIVE LinesLoop(_, _)
LinesLoop(lines, acc) ==
    IF lines = <<>> THEN acc
    ELSE LET line == Head(lines)
             p    == ParseLine(line)
         IN  IF ~Truthy(line) \/ ~Truthy(p.text)
               THEN LinesLoop(Tail(lines), acc)
               ELSE LinesLoop(Tail(lines),
                      [fragments |-> Append(acc.fragments, p.text.v),
                       scored    |-> IF p.score # PyNone
                                       THEN Append(acc.scored, <<p.text.v, p.score.v>>)
                                       ELSE acc.scored])

\* The outer loop over the blocks of the result.
RECURSIVE BlocksLoop(_, _)
BlocksLoop(blocks, acc) ==
    IF blocks = <<>> THEN acc
    ELSE IF ~Truthy(Head(blocks))
      THEN BlocksLoop(Tail(blocks), acc)
      ELSE BlocksLoop(Tail(blocks), LinesLoop(Head(blocks).v, acc))

\* Returns <<raw text, scored fragments>>.
extract_ocr_text(res) ==
    LET blocks == IF Truthy(res) THEN res.v ELSE <<>>
        acc    == BlocksLoop(blocks, [fragments |-> <<>>, scored |-> <<>>])
    IN  <<Join(<<" ">>, acc.fragments), acc.scored>>

-----------------------------------------------------------------------------
(* Threat matching and risk scoring                                          *)

THREAT_DICTIONARY == <<
    <<"i","g","n","o","r","e"," ","p","r","e","v","i","o","u","s">>,
    <<"s","y","s","t","e","m"," ","o","v","e","r","r","i","d","e">>,
    <<"t","r","a","n","s","f","e","r"," ","f","u","n","d","s">>,
    <<"b","y","p","a","s","s"," ","s","a","f","e","t","y">>,
    <<"d","i","s","a","b","l","e"," ","g","u","a","r","d","r","a","i","l","s">>,
    <<"o","v","e","r","r","i","d","e"," ","p","o","l","i","c","y">>,
    <<"r","e","v","e","a","l"," ","s","e","c","r","e","t","s">> >>

\* Risk constants, in thousandths: 0.6 + 0.1 * len(matched) + 0.2 * avg_conf,
\* avg_conf 0.6 without scores, capped at 1.0.
RiskBase == 600
RiskPerPhrase == 100
DefaultAvgConf == 600
RiskCap == 1000
\* 0.2 is one fifth.
ConfWeightInverse == 5

\* similarity < 0.18, in units of 10^-5.
MismatchThreshold == 18000
\* round(similarity, 4) keeps one digit in ten of a value in units of 10^-5.
ScoreRounding == 10

\* The characters of the model in code-point order.
CodePointOrder == <<" ", "!", "-">> \o
                  <<"0","1","2","3","4","5","6","7","8","9">> \o
                  <<"?">> \o UpperAlpha \o LowerAlpha

Ord(c) == CHOOSE i \in 1..Len(CodePointOrder) : CodePointOrder[i] = c

\* a < b for Python strings: lexicographic by code point.
RECURSIVE StrLess(_, _)
StrLess(a, b) ==
    IF b = <<>> THEN FALSE
    ELSE IF a = <<>> THEN TRUE
    ELSE IF Head(a) # Head(b) THEN Ord(Head(a)) < Ord(Head(b))
    ELSE StrLess(Tail(a), Tail(b))

\* A matcher that only accepts a phrase made of whole tokens of the text.
ContainsTokens(phrase, text) ==
    LET pt == Split(phrase)
        tt == Split(text)
    IN  \E i \in 1..(Len(tt) - Len(pt) + 1) :
            SubSeq(tt, i, i + Len(pt) - 1) = pt

\* phrase in text
Contains(phrase, text) ==
    \E i \in 1..(Len(text) - Len(phrase) + 1) :
        SubSeq(text, i, i + Len(phrase) - 1) = phrase

\* [phrase for phrase in THREAT_DICTIONARY if phrase in normalized]
MatchedPhrases(text) == SelectSeq(THREAT_DICTIONARY, LAMBDA p : Contains(p, text))

SeqToSet(s) == {s[i] : i \in 1..Len(s)}

\* The phrases left in the order of the dictionary.
UnsortedPhrases(phrases) == phrases

\* sorted(set(phrases))
RECURSIVE SortSet(_)
SortSet(S) ==
    IF S = {} THEN <<>>
    ELSE LET m == CHOOSE x \in S : \A y \in S : ~StrLess(y, x)
         IN  <<m>> \o SortSet(S \ {m})

SortedPhrases(phrases) == SortSet(SeqToSet(phrases))

RECURSIVE SumScores(_)
SumScores(sc) == IF sc = <<>> THEN 0 ELSE Head(sc)[2] + SumScores(Tail(sc))

Min(a, b) == IF a <= b THEN a ELSE b

\* num/den rounded to the nearest integer, ties to the even one, as round()
\* does on an exact value (no tie arises among the risks explored).
RoundHalfEven(num, den) ==
    LET q == num \div den
        r == num % den
    IN  IF 2 * r < den THEN q
        ELSE IF 2 * r > den THEN q + 1
        ELSE IF q % 2 = 0 THEN q ELSE q + 1

\* The risk score with the cap at 1.0 left out.
RiskScoreNoCap(nMatched, sc) ==
    LET k   == IF sc # <<>> THEN Len(sc) ELSE 1
        sum == IF sc # <<>> THEN SumScores(sc) ELSE DefaultAvgConf
        den == ConfWeightInverse * k
        num == (RiskBase + RiskPerPhrase * nMatched) * den + sum
    IN  RoundHalfEven(num, den)

\* round(min(1.0, 0.6 + 0.1 * len(matched) + 0.2 * avg_conf), 3), in
\* thousandths, computed exactly over the denominator 5 * len(scored).
RiskScore(nMatched, sc) ==
    LET k   == IF sc # <<>> THEN Len(sc) ELSE 1
        sum == IF sc # <<>> THEN SumScores(sc) ELSE DefaultAvgConf
        den == ConfWeightInverse * k
        num == (RiskBase + RiskPerPhrase * nMatched) * den + sum
    IN  RoundHalfEven(Min(RiskCap * den, num), den)

\* The reason string: its literal text and the interpolated phrase list.
ReasonNoText == [text |-> "No readable text detected in image.", phrases |-> <<>>]
ReasonNoThreat == [text |-> "No threat phrases detected.", phrases |-> <<>>]
ReasonMatched(list) == [text |-> "Matched threat phrases: {}.", phrases |-> list]

\* The verdict with the test for empty text left out.
VerdictNoEmptyTest(norm, m, sc) ==
    IF m # <<>>
      THEN [is_threat |-> TRUE, risk_score |-> RiskScore(Len(m), sc),
            reason |-> ReasonMatched(Join(<<",", " ">>, SortedPhrases(m)))]
      ELSE [is_threat |-> FALSE, risk_score |-> 0, reason |-> ReasonNoThreat]

\* The verdict of detect_injection from the normalized text, the matched
\* phrases and the scored fragments.
DetectVerdict(norm, m, sc) ==
    IF norm = <<>>
      THEN [is_threat |-> FALSE, risk_score |-> 0, reason |-> ReasonNoText]
    ELSE IF m # <<>>
      THEN [is_threat |-> TRUE, risk_score |-> RiskScore(Len(m), sc),
            reason |-> ReasonMatched(Join(<<",", " ">>, SortedPhrases(m)))]
      ELSE [is_threat |-> FALSE, risk_score |-> 0, reason |-> ReasonNoThreat]

\* round() of a binary float whose decimal value num/den lies halfway between
\* two integers gives either neighbour, as the float falls on one side of
\* the tie or the other; away from a tie it gives the nearest integer.
RoundOutcomes(num, den) ==
    LET q == num \div den
        r == num % den
    IN  IF 2 * r < den THEN {q}
        ELSE IF 2 * r > den THEN {q + 1}
        ELSE {q, q + 1}

\* The verdicts of check_cross_modal with <= in place of <.
CrossVerdictsInclusive(s) ==
    {[is_mismatch |-> s <= MismatchThreshold, consistency_score |-> c] :
        c \in RoundOutcomes(s, ScoreRounding)}

\* The verdicts check_cross_modal can return for a similarity s (units of
\* 10^-5); the consistency score is in units of 10^-4.
CrossVerdicts(s) ==
    {[is_mismatch |-> s < MismatchThreshold, consistency_score |-> c] :
        c \in RoundOutcomes(s, ScoreRounding)}

EmptyTranscriptVerdict == [is_mismatch |-> TRUE, consistency_score |-> 0]

NoResult == [none |-> TRUE]

-----------------------------------------------------------------------------
(* Inputs explored                                                           *)

\* Texts the OCR capability recognizes in the lines of an image: words and
\* phrases, and marks that hold no letter or digit.
WordTexts == {
    <<"S","Y","S","T","E","M">>,
    <<"O","V","E","R","R","I","D","E">>,
    <<"B","y","p","a","s","s","-","S","a","f","e","t","y","N","e","t">>,
    <<"i"," ","g"," ","n"," ","o"," ","r"," ","e"," ","p","r","e","v","i","o","u","s">>,
    <<"S","y","s","t","e","m"," ","O","v","e","r","r","i","d","e"," ","P","o","l","i","c","y">> }
MarkTexts == { <<"?","!">>, <<" ">> }

\* Confidences the OCR capability reports, in thousandths, within [0, 1].
WordScores == {900, 800}
MarkScores == {333}

\* A detected region's corner points.
Geometry == PyList(<<PyList(<<PyNum(0), PyNum(0)>>), PyList(<<PyNum(9), PyNum(9)>>)>>)

\* The line records of the OCR capability in use: [geometry, (text, score)],
\* and the same without a score.
ScoredLine(x, c) == PyList(<<Geometry, PyList(<<PyStr(x), PyNum(c)>>)>>)
UnscoredLine(x) == PyList(<<Geometry, PyList(<<PyStr(x)>>)>>)
DetectLines ==
    {ScoredLine(x, c) : x \in WordTexts, c \in WordScores}
    \cup {ScoredLine(x, c) : x \in MarkTexts, c \in MarkScores}
    \cup {UnscoredLine(x) : x \in WordTexts \cup MarkTexts}

\* Line records of every shape, for extract_ocr_text on its own.
ShapeTexts == {<<"a","b">>, <<"c">>}
ShapeLines ==
    UNION {{PyList(<<PyStr(x)>>),
            PyList(<<PyStr(x), PyNum(900)>>),
            PyList(<<Geometry, PyList(<<PyStr(x), PyNum(800)>>)>>),
            PyList(<<Geometry, PyList(<<PyStr(x)>>)>>),
            PyList(<<Geometry, PyStr(x)>>),
            PyStr(x)} : x \in ShapeTexts}
    \cup {PyNone,
          PyList(<<>>),
          PyObj,
          PyList(<<Geometry, PyList(<<>>)>>),
          PyList(<<Geometry, PyList(<<PyStr(<<>>), PyNum(900)>>)>>),
          PyList(<<Geometry, PyList(<<PyNone, PyNum(900)>>)>>),
          PyList(<<Geometry, PyList(<<PyStr(<<"a","b">>), PyStr(<<"c">>)>>)>>)}

Images == {"path_ok", "path_bad", "bytes_ok", "bytes_bad"}
IsPath(img) == img \in {"path_ok", "path_bad"}
Decodable(img) == img \in {"path_ok", "bytes_ok"}

Transcripts == {PyNone, PyStr(<<>>), PyStr(<<"a"," ","c","a","t">>)}

\* Cosine similarities, in units of 10^-5: the ends of the range, zero,
\* negative values, ties of the rounding, and a window around the threshold.
Similarities ==
    {-100000, -12345, -15, 0, 25005, 25015, 100000}
    \cup {MismatchThreshold + d : d \in (0 - SimWindow)..SimWindow}

RawAlphabet == {"a", "C", "7", " ", "-"}
RawTexts == UNION {[1..n -> RawAlphabet] : n \in 0..MaxRawLen}

-----------------------------------------------------------------------------
(* The engine: detect_injection and check_cross_modal                        *)

IdleWith(p, text, res) ==
    /\ pc = p
    /\ op = "none"
    /\ image = "none"
    /\ transcript = PyNone
    /\ ocr_result = res
    /\ raw_text = text
    /\ scored = <<>>
    /\ normalized = <<>>
    /\ renormalized = <<>>
    /\ matched = <<>>
    /\ result = NoResult
    /\ exc = "none"
    /\ capFailure = "none"
    /\ similarity = 0
    /\ ocrCalls = 0
    /\ encodeCalls = 0
    /\ imageLoads = 0

Idle == IdleWith("idle", <<>>, PyNone)

Init == Idle

textVars == <<raw_text, scored, normalized, renormalized, matched>>
callVars == <<op, image, transcript>>
countVars == <<ocrCalls, encodeCalls, imageLoads>>

\* detect_injection up to the call of the OCR capability: bytes are decoded
\* by the engine, a path is handed over as it is.
CallDetect(img) ==
    /\ pc = "idle"
    /\ op' = "detect"
    /\ image' = img
    /\ imageLoads' = IF IsPath(img) THEN imageLoads ELSE imageLoads + 1
    /\ IF ~IsPath(img) /\ ~Decodable(img)
         THEN /\ pc' = "raised"
              /\ exc' = "ImageDecodeError"
              /\ UNCHANGED <<ocr_result, ocrCalls>>
         ELSE /\ pc' = "ocr"
              /\ ocrCalls' = ocrCalls + 1
              /\ ocr_result' = PyList(<<PyNone>>)
              /\ UNCHANGED exc
    /\ UNCHANGED <<transcript, textVars, result, capFailure, similarity, encodeCalls>>

\* The OCR capability, at work on an image it can read, finds one more line.
OcrEmitLine(line) ==
    /\ pc = "ocr"
    /\ Decodable(image)
    /\ LET block == ocr_result.v[1]
           lines == IF block = PyNone THEN <<>> ELSE block.v
       IN  /\ Len(lines) < MaxLines
           /\ ocr_result' = PyList(<<PyList(Append(lines, line))>>)
    /\ UNCHANGED <<pc, callVars, textVars, result, exc, capFailure, similarity, countVars>>

\* The OCR capability raises and detect_injection, which catches nothing,
\* turns the failure into a verdict of no threat.
OcrRaiseSwallowed ==
    /\ pc = "ocr"
    /\ pc' = "returned"
    /\ capFailure' = "ocr"
    /\ result' = [is_threat |-> FALSE, risk_score |-> 0, reason |-> ReasonNoText]
    /\ ocr_result' = PyNone
    /\ UNCHANGED <<callVars, textVars, exc, similarity, countVars>>

\* The OCR capability raises: detect_injection has no handler, the failure
\* leaves the call.
OcrRaise ==
    /\ pc = "ocr"
    /\ pc' = "raised"
    /\ capFailure' = "ocr"
    /\ exc' = "OCRFailure"
    /\ ocr_result' = PyNone
    /\ UNCHANGED <<callVars, textVars, result, similarity, countVars>>

\* The OCR capability returns what it found in an image it can read, and
\* detect_injection runs to its return.
OcrReturn ==
    /\ pc = "ocr"
    /\ Decodable(image)
    /\ LET ex   == extract_ocr_text(ocr_result)
           norm == normalize_text(ex[1])
           m    == MatchedPhrases(norm)
       IN  /\ raw_text' = ex[1]
           /\ scored' = ex[2]
           /\ normalized' = norm
           /\ matched' = m
           /\ result' = DetectVerdict(norm, m, ex[2])
    /\ pc' = "returned"
    /\ UNCHANGED <<callVars, ocr_result, renormalized, exc, capFailure, similarity, countVars>>

\* check_cross_modal with the image loaded before the transcript is tested.
CallCrossLoadFirst(img, tr) ==
    /\ pc = "idle"
    /\ op' = "cross"
    /\ image' = img
    /\ transcript' = tr
    /\ imageLoads' = imageLoads + 1
    /\ IF ~Decodable(img)
         THEN /\ pc' = "raised"
              /\ exc' = "ImageDecodeError"
              /\ UNCHANGED <<result, encodeCalls>>
         ELSE IF ~Truthy(tr)
           THEN /\ pc' = "returned"
                /\ result' = EmptyTranscriptVerdict
                /\ UNCHANGED <<exc, encodeCalls>>
           ELSE /\ pc' = "clip_image"
                /\ encodeCalls' = encodeCalls + 1
                /\ UNCHANGED <<result, exc>>
    /\ UNCHANGED <<ocr_result, textVars, capFailure, similarity, ocrCalls>>

\* check_cross_modal up to the first call of the embedding capability.
CallCross(img, tr) ==
    /\ pc = "idle"
    /\ op' = "cross"
    /\ image' = img
    /\ transcript' = tr
    /\ IF ~Truthy(tr)
         THEN /\ pc' = "returned"
              /\ result' = EmptyTranscriptVerdict
              /\ UNCHANGED <<exc, imageLoads, encodeCalls>>
         ELSE /\ imageLoads' = imageLoads + 1
              /\ IF ~Decodable(img)
                   THEN /\ pc' = "raised"
                        /\ exc' = "ImageDecodeError"
                        /\ UNCHANGED <<result, encodeCalls>>
                   ELSE /\ pc' = "clip_image"
                        /\ encodeCalls' = encodeCalls + 1
                        /\ UNCHANGED <<result, exc>>
    /\ UNCHANGED <<ocr_result, textVars, capFailure, similarity, ocrCalls>>

\* The image embedding returns; the transcript is encoded next.
ClipImageReturn ==
    /\ pc = "clip_image"
    /\ pc' = "clip_text"
    /\ encodeCalls' = encodeCalls + 1
    /\ UNCHANGED <<callVars, ocr_result, textVars, result, exc, capFailure,
                   similarity, ocrCalls, imageLoads>>

\* Either call of the embedding capability raises: no handler, the failure
\* leaves the call.
ClipRaise ==
    /\ pc \in {"clip_image", "clip_text"}
    /\ pc' = "raised"
    /\ capFailure' = "clip"
    /\ exc' = "EmbeddingFailure"
    /\ UNCHANGED <<callVars, ocr_result, textVars, result, similarity, countVars>>

\* The text embedding returns; s is the dot product of the two embeddings.
ClipTextReturn(s) ==
    /\ pc = "clip_text"
    /\ similarity' = s
    /\ result' \in CrossVerdicts(s)
    /\ pc' = "returned"
    /\ UNCHANGED <<callVars, ocr_result, textVars, exc, capFailure, countVars>>

\* The call is over; the engine keeps nothing of it.
NextCall ==
    /\ pc \in {"returned", "raised"}
    /\ pc' = "idle"
    /\ op' = "none"
    /\ image' = "none"
    /\ transcript' = PyNone
    /\ ocr_result' = PyNone
    /\ raw_text' = <<>>
    /\ scored' = <<>>
    /\ normalized' = <<>>
    /\ matched' = <<>>
    /\ result' = NoResult
    /\ exc' = "none"
    /\ capFailure' = "none"
    /\ similarity' = 0
    /\ ocrCalls' = 0
    /\ encodeCalls' = 0
    /\ imageLoads' = 0
    /\ UNCHANGED renormalized

Next ==
    \/ \E img \in Images : CallDetect(img)
    \/ \E line \in DetectLines : OcrEmitLine(line)
    \/ OcrRaise
    \/ OcrReturn
    \/ \E img \in Images, tr \in Transcripts : CallCross(img, tr)
    \/ ClipImageReturn
    \/ ClipRaise
    \/ \E s \in Similarities : ClipTextReturn(s)
    \/ NextCall

Spec == Init /\ [][Next]_vars

-----------------------------------------------------------------------------
(* normalize_text on its own, applied to a raw text and to its own result     *)

InitNorm == \E x \in RawTexts : IdleWith("norm_start", x, PyNone)

NormalizeOnce ==
    /\ pc = "norm_start"
    /\ normalized' = normalize_text(raw_text)
    /\ pc' = "norm_once"
    /\ UNCHANGED <<callVars, ocr_result, raw_text, scored, renormalized, matched,
                   result, exc, capFailure, similarity, countVars>>

NormalizeTwice ==
    /\ pc = "norm_once"
    /\ renormalized' = normalize_text(normalized)
    /\ pc' = "norm_twice"
    /\ UNCHANGED <<callVars, ocr_result, raw_text, scored, normalized, matched,
                   result, exc, capFailure, similarity, countVars>>

NextNorm == NormalizeOnce \/ NormalizeTwice

SpecNorm == InitNorm /\ [][NextNorm]_vars

-----------------------------------------------------------------------------
(* extract_ocr_text on its own, on OCR results of every shape                 *)

InitOcr == \E r \in {PyNone, PyList(<<>>)} : IdleWith("ocr_build", <<>>, r)

LineCount(res) ==
    LET n[i \in 0..Len(res.v)] ==
          IF i = 0 THEN 0
          ELSE n[i - 1] + (IF res.v[i].t = "list" THEN Len(res.v[i].v) ELSE 0)
    IN  n[Len(res.v)]

\* The capability opens one more block: None (nothing found) or a list.
BuildBlock(b) ==
    /\ pc = "ocr_build"
    /\ ocr_result.t = "list"
    /\ Len(ocr_result.v) < MaxBlocks
    /\ ocr_result' = PyList(Append(ocr_result.v, b))
    /\ UNCHANGED <<pc, callVars, textVars, result, exc, capFailure, similarity, countVars>>

\* The capability adds a line record to its last block.
BuildLine(line) ==
    /\ pc = "ocr_build"
    /\ ocr_result.t = "list"
    /\ ocr_result.v # <<>>
    /\ LET k == Len(ocr_result.v)
       IN  /\ ocr_result.v[k].t = "list"
           /\ LineCount(ocr_result) < MaxOcrLines
           /\ ocr_result' = PyList([ocr_result.v EXCEPT
                                ![k] = PyList(Append(ocr_result.v[k].v, line))])
    /\ UNCHANGED <<pc, callVars, textVars, result, exc, capFailure, similarity, countVars>>

ExtractOnly ==
    /\ pc = "ocr_build"
    /\ LET ex == extract_ocr_text(ocr_result)
       IN  /\ raw_text' = ex[1]
           /\ scored' = ex[2]
    /\ pc' = "ocr_done"
    /\ UNCHANGED <<callVars, ocr_result, normalized, renormalized, matched,
                   result, exc, capFailure, similarity, countVars>>

NextOcr ==
    \/ \E b \in {PyNone, PyList(<<>>)} : BuildBlock(b)
    \/ \E line \in ShapeLines : BuildLine(line)
    \/ ExtractOnly

SpecOcr == InitOcr /\ [][NextOcr]_vars

-----------------------------------------------------------------------------
(* Vocabulary of the properties                                              *)

DetectReturned == pc = "returned" /\ op = "detect"
CrossReturned == pc = "returned" /\ op = "cross"

Abs(x) == IF x < 0 THEN 0 - x ELSE x

\* p occurs in text as a contiguous substring.
OccursIn(p, text) ==
    \E i \in 0..Len(text) :
        /\ i + Len(p) <= Len(text)
        /\ \A j \in 1..Len(p) : text[i + j] = p[j]

\* The dictionary phrases that occur in the text.
PhrasesIn(text) ==
    {THREAT_DICTIONARY[k] : k \in {k \in 1..Len(THREAT_DICTIONARY) :
                                      OccursIn(THREAT_DICTIONARY[k], text)}}

\* A character that lowercases into [a-z0-9].
IsWordChar(c) == LowerChar(c) \in AlnumChars

\* The lines the OCR capability returned to detect_injection.
ReturnedLines ==
    IF ocr_result.t = "list" /\ ocr_result.v # <<>> /\ ocr_result.v[1].t = "list"
      THEN ocr_result.v[1].v ELSE <<>>
LineText(l) == l.v[2].v[1].v
LineHasScore(l) == Len(l.v[2].v) = 2
LineScore(l) == l.v[2].v[2].v

\* The sum of the scores of the lines whose index is in I.
SumOfScores(lines, I) ==
    LET f[i \in 0..Len(lines)] ==
          IF i = 0 THEN 0
          ELSE f[i - 1] + (IF i \in I THEN LineScore(lines[i]) ELSE 0)
    IN  f[Len(lines)]

\* score (thousandths) is a nearest thousandth of
\* min(1.0, 0.6 + 0.1 * n + 0.2 * avg), avg the mean of the scores of the
\* lines in I, or 0.6 when I is empty.
IsRoundedRisk(score, n, lines, I) ==
    LET k   == IF I = {} THEN 1 ELSE Cardinality(I)
        sum == IF I = {} THEN 600 ELSE SumOfScores(lines, I)
        den == 5 * k
        raw == (600 + 100 * n) * den + sum
        num == IF raw > 1000 * den THEN 1000 * den ELSE raw
    IN  2 * Abs(score * den - num) <= den

-----------------------------------------------------------------------------
(* C1 *)

\* C1: detect_injection returns is_threat = true exactly when a dictionary
\* phrase is a contiguous substring of the normalized text; then the risk
\* score is at least 0.6; and a non-empty normalized text without a phrase
\* gets is_threat = false, risk 0.0 and the "no threat phrases" reason.
C1_ThreatIffPhraseOccurs ==
    DetectReturned =>
      /\ result.is_threat = (PhrasesIn(normalized) # {})
      /\ result.is_threat => result.risk_score >= 600
      /\ (normalized # <<>> /\ PhrasesIn(normalized) = {}) =>
            /\ result.is_threat = FALSE
            /\ result.risk_score = 0
            /\ result.reason.text = "No threat phrases detected."

\* A threat reported for a phrase that ends inside a longer token.
C1_Witness ==
    /\ DetectReturned
    /\ result.is_threat
    /\ normalized = <<"b","y","p","a","s","s"," ","s","a","f","e","t","y","n","e","t">>
    /\ result.risk_score >= 600

-----------------------------------------------------------------------------
(* C2 *)

\* C2 as stated: the average is taken over the fragments that contribute to
\* the matched text only.  Checked where the normalized text is exactly one
\* phrase, so that a fragment contributes to the matched text if and only if
\* it holds a letter or a digit; the result is compared after rounding.
C2_AverageOfContributingFragments ==
    (DetectReturned /\ result.is_threat /\ normalized \in PhrasesIn(normalized)) =>
      LET lines == ReturnedLines
          I == {i \in 1..Len(lines) :
                  /\ LineHasScore(lines[i])
                  /\ \E j \in 1..Len(LineText(lines[i])) :
                        IsWordChar(LineText(lines[i])[j])}
      IN  IsRoundedRisk(result.risk_score, Cardinality(PhrasesIn(normalized)), lines, I)

\* C2 amended: the risk score is min(1.0, 0.6 + 0.1*|M| + 0.2*avgConf)
\* rounded to three decimals, avgConf being the mean of the confidences of
\* all fragments of the image that carry one, 0.6 when none does.
C2_AverageOfAllScoredFragments ==
    (DetectReturned /\ result.is_threat) =>
      LET lines == ReturnedLines
          I == {i \in 1..Len(lines) : LineHasScore(lines[i])}
      IN  IsRoundedRisk(result.risk_score, Cardinality(PhrasesIn(normalized)), lines, I)

\* The end-to-end scenario: ("SYSTEM", 0.9), ("OVERRIDE", 0.8) gives 0.87.
C2_Witness ==
    /\ DetectReturned
    /\ scored = << <<(<<"S","Y","S","T","E","M">>), 900>>,
                   <<(<<"O","V","E","R","R","I","D","E">>), 800>> >>
    /\ result.is_threat
    /\ result.risk_score = 870

-----------------------------------------------------------------------------
(* C3 *)

\* C3: a raw text that is empty or holds no character of [a-z0-9] after
\* lowercasing normalizes to the empty string, and detect_injection answers
\* is_threat = false, risk 0.0 with the "no readable text" reason, which is
\* not the reason given for a text without a phrase.
C3_NoReadableText ==
    (DetectReturned /\ \A i \in 1..Len(raw_text) : ~IsWordChar(raw_text[i])) =>
      /\ normalized = <<>>
      /\ result.is_threat = FALSE
      /\ result.risk_score = 0
      /\ result.reason.text = "No readable text detected in image."
      /\ result.reason.text # "No threat phrases detected."

\* Marks and blanks only: a raw text that is not empty and normalizes to "".
C3_Witness ==
    /\ DetectReturned
    /\ Len(raw_text) >= 3
    /\ \A i \in 1..Len(raw_text) : ~IsWordChar(raw_text[i])
    /\ normalized = <<>>
    /\ result.reason = ReasonNoText

-----------------------------------------------------------------------------
(* C4 *)

\* C4: with an empty or absent transcript check_cross_modal returns
\* {is_mismatch: true, consistency_score: 0.0} for every image, without
\* loading the image or calling the embedding capability.
C4_EmptyTranscriptShortCircuit ==
    (op = "cross" /\ transcript \in {PyNone, PyStr(<<>>)}) =>
      /\ pc = "returned"
      /\ result = [is_mismatch |-> TRUE, consistency_score |-> 0]
      /\ exc = "none"
      /\ imageLoads = 0
      /\ encodeCalls = 0

\* An empty transcript with an image that cannot be decoded.
C4_Witness ==
    /\ op = "cross"
    /\ transcript = PyStr(<<>>)
    /\ ~Decodable(image)
    /\ pc = "returned"

-----------------------------------------------------------------------------
(* C5 *)

\* C5 as stated: the returned consistency score is the similarity itself, and
\* is_mismatch is true exactly when the returned score is below 0.18.
C5_ScoreIsSimilarity ==
    (CrossReturned /\ Truthy(transcript)) =>
      /\ result.consistency_score * 10 = similarity
      /\ result.is_mismatch = (similarity < 18000)
      /\ result.is_mismatch = (result.consistency_score * 10 < 18000)

\* C5 amended: the returned consistency score is the similarity rounded to
\* four decimals (unclamped), is_mismatch is (similarity < 0.18) on the
\* unrounded similarity; so a returned score below 0.18 implies is_mismatch,
\* and is_mismatch implies a returned score of at most 0.18.
C5_ScoreIsRoundedSimilarity ==
    (CrossReturned /\ Truthy(transcript)) =>
      /\ 2 * Abs(result.consistency_score * 10 - similarity) <= 10
      /\ result.is_mismatch = (similarity < 18000)
      /\ (result.consistency_score < 1800) => result.is_mismatch
      /\ result.is_mismatch => (result.consistency_score <= 1800)

\* A similarity just below the threshold, returned as 0.18 with a mismatch.
C5_Witness ==
    /\ CrossReturned
    /\ similarity = 17996
    /\ result.is_mismatch
    /\ result.consistency_score = 1800

-----------------------------------------------------------------------------
(* C8 *)

\* C8: the reason of a threat verdict lists each matched phrase once, in
\* lexicographic order, joined by ", ".
C8_ReasonSortedDistinct ==
    (DetectReturned /\ result.is_threat) =>
      LET M == PhrasesIn(normalized)
          n == Cardinality(M)
      IN  /\ result.reason.text = "Matched threat phrases: {}."
          /\ \E seq \in [1..n -> M] :
                /\ \A i, j \in 1..n : i < j => StrLess(seq[i], seq[j])
                /\ result.reason.phrases = Join(<<",", " ">>, seq)

\* "ignore previous" precedes "bypass safety" in the dictionary and follows
\* it in the reason.
C8_Witness ==
    /\ DetectReturned
    /\ matched = << THREAT_DICTIONARY[1], THREAT_DICTIONARY[4] >>
    /\ result.reason.phrases =
         THREAT_DICTIONARY[4] \o <<",", " ">> \o THREAT_DICTIONARY[1]

-----------------------------------------------------------------------------
(* C10 *)

\* C10: a failure of the OCR capability, or of the embedding capability,
\* leaves the call as that failure and no verdict is returned; neither
\* capability is called again within a call.
C10_FailuresPropagate ==
    /\ capFailure = "ocr" =>
          (pc = "raised" /\ exc = "OCRFailure" /\ result = NoResult)
    /\ capFailure = "clip" =>
          (pc = "raised" /\ exc = "EmbeddingFailure" /\ result = NoResult)
    /\ pc = "returned" => capFailure = "none"
    /\ ocrCalls <= 1
    /\ encodeCalls <= 2

\* The OCR capability has failed, after its one call.
C10_Witness ==
    /\ capFailure = "ocr"
    /\ op = "detect"
    /\ ocrCalls = 1
    /\ pc = "raised"

-----------------------------------------------------------------------------
(* C6, C7: normalize_text                                                    *)

\* The tokens of a text: its maximal runs of word characters, lowercased.
TokenStarts(s) ==
    {i \in 1..Len(s) : IsWordChar(s[i]) /\ (i = 1 \/ ~IsWordChar(s[i - 1]))}
TokenEnds(s) ==
    {i \in 1..Len(s) : IsWordChar(s[i]) /\ (i = Len(s) \/ ~IsWordChar(s[i + 1]))}
Kth(S, k) == CHOOSE x \in S : Cardinality({y \in S : y < x}) = k - 1
TokensOf(s) ==
    LET S == TokenStarts(s)
        E == TokenEnds(s)
    IN  [k \in 1..Cardinality(S) |->
            LET a == Kth(S, k)
                b == Kth(E, k)
            IN  [j \in 1..(b - a + 1) |-> LowerChar(s[a + j - 1])]]

\* The number of characters before the token that follows token i.
OffsetAfter(T, i) == Len(Concat(SubSeq(T, 1, i)))

\* C6: normalization is idempotent.
C6_Idempotent ==
    pc = "norm_twice" => renormalized = normalized

\* A text whose normalization merged a run, normalized again.
C6_Witness ==
    /\ pc = "norm_twice"
    /\ raw_text = <<"a", " ", "7", "-", "C", "a">>
    /\ normalized = <<"a", "7", " ", "c", "a">>
    /\ renormalized = normalized

\* C7: the output holds only [a-z0-9] and single separating spaces; the
\* tokens of the output are the tokens of the cleaned input in their order,
\* with exactly the boundaries between two one-character tokens removed.
C7_OutputShape ==
    pc = "norm_once" =>
      LET T == TokensOf(raw_text)
          O == TokensOf(normalized)
          n == Len(normalized)
      IN  /\ \A i \in 1..n : normalized[i] \in AlnumChars \cup {" "}
          /\ n > 0 => (normalized[1] # " " /\ normalized[n] # " ")
          /\ \A i \in 1..(n - 1) : ~(normalized[i] = " " /\ normalized[i + 1] = " ")
          /\ Concat(O) = Concat(T)
          /\ {OffsetAfter(O, i) : i \in 1..(Len(O) - 1)} =
             {OffsetAfter(T, i) : i \in {i \in 1..(Len(T) - 1) :
                                           ~(Len(T[i]) = 1 /\ Len(T[i + 1]) = 1)}}

\* A run of two one-character tokens merged before a longer token.
C7_Witness ==
    /\ pc = "norm_once"
    /\ raw_text = <<"C", "-", "7", " ", "a", "a">>
    /\ normalized = <<"c", "7", " ", "a", "a">>

-----------------------------------------------------------------------------
(* C9: _extract_ocr_text                                                     *)

\* The three shapes of a line record that C9 names, with a text to carry.
IsText(x) == x.t = "str" /\ x.v # <<>>
IsTextOnly(l) == l.t = "list" /\ Len(l.v) = 1 /\ IsText(l.v[1])
IsTextScore(l) ==
    l.t = "list" /\ Len(l.v) = 2 /\ IsText(l.v[1]) /\ l.v[2].t = "num"
IsGeomTextScore(l) ==
    /\ l.t = "list" /\ Len(l.v) = 2 /\ l.v[1].t = "list" /\ l.v[2].t = "list"
    /\ Len(l.v[2].v) = 2 /\ IsText(l.v[2].v[1]) /\ l.v[2].v[2].t = "num"
\* A record that holds nothing to parse.
IsEmptyRecord(l) == l \in {PyNone, PyList(<<>>), PyObj}

NamedText(l) == IF IsGeomTextScore(l) THEN l.v[2].v[1].v ELSE l.v[1].v
NamedScored(l) ==
    IF IsGeomTextScore(l) THEN << <<l.v[2].v[1].v, l.v[2].v[2].v>> >>
    ELSE IF IsTextScore(l) THEN << <<l.v[1].v, l.v[2].v>> >>
    ELSE <<>>

\* All line records of a result, in its order.
RECURSIVE AllLines(_)
AllLines(blocks) ==
    IF blocks = <<>> THEN <<>>
    ELSE (IF Head(blocks).t = "list" THEN Head(blocks).v ELSE <<>>)
         \o AllLines(Tail(blocks))

\* C9: every line of shape [text], [text, score] or [geometry, [text, score]]
\* yields a fragment with its text (and score), fragment texts are joined in
\* the result's order by single spaces, and other records are skipped.
\* Stated over results whose records have one of the three shapes or are empty.
C9_NamedShapesParsed ==
    LET lines == IF ocr_result.t = "list" THEN AllLines(ocr_result.v) ELSE <<>>
        named == SelectSeq(lines, LAMBDA l :
                    IsTextOnly(l) \/ IsTextScore(l) \/ IsGeomTextScore(l))
    IN  (/\ pc = "ocr_done"
         /\ \A i \in 1..Len(lines) :
               \/ IsEmptyRecord(lines[i])
               \/ IsTextOnly(lines[i]) \/ IsTextScore(lines[i])
               \/ IsGeomTextScore(lines[i]))
        => /\ raw_text = Join(<<" ">>, [i \in 1..Len(named) |-> NamedText(named[i])])
           /\ scored = Concat([i \in 1..Len(named) |-> NamedScored(named[i])])

=============================================================================
